---- MODULE Spec2Model ----
(***************************************************************************)
(* Outline editor (src/main.ts): extraction of the heading outline of a    *)
(* document, the editable outline text, the external rewrite call and the  *)
(* reconciliation of the edited outline into the document.                 *)
(*                                                                         *)
(* A text (a JavaScript string) is a sequence of one-character strings;    *)
(* "\n" ends a line; " ", "\t" and "\n" are the whitespace characters of   *)
(* the alphabet.  Line indices are 0-based as in the source;               *)
(* sequence positions are 1-based, so line i is lines[i + 1].              *)
(***************************************************************************)
EXTENDS Integers, Sequences, FiniteSets, TLC

\* ------------------------------------------------------------------ bounds
\* Longest document (in lines) of the reconciliation specification.
MaxDocLines == 3
\* Longest user-typed outline (in lines) of the reconciliation specification.
MaxEditLines == 2
\* Longest original / enhanced line sequences given to matchHeadingsWithIds.
MaxMatchLines == 3
\* Requests the network can hold at once (caps the in-flight calls).
MaxOutstanding == 2

\* The heading pattern's #{1,6}.
MaxLevel == 6

\* ------------------------------------------------------- string primitives
NL == "\n"
\* The characters of \s and of trim.
Ws == {" ", "\t", NL}
Digit == {"0", "1", "2", "3", "4", "5", "6", "7", "8", "9"}
DigitChar == <<"0", "1", "2", "3", "4", "5", "6", "7", "8", "9">>
Hash == {"#"}

SetMax(S) == CHOOSE x \in S : \A y \in S : y <= x

\* Number of consecutive characters of s, from position i on, that are in C
\* (what a greedy C* consumes at i).
RECURSIVE RunLen(_, _, _)
RunLen(s, i, C) ==
    IF i > Len(s) \/ s[i] \notin C THEN 0 ELSE 1 + RunLen(s, i + 1, C)

\* Number of consecutive characters of s, from position i back, that are in C.
RECURSIVE RunLenBack(_, _, _)
RunLenBack(s, i, C) ==
    IF i < 1 \/ s[i] \notin C THEN 0 ELSE 1 + RunLenBack(s, i - 1, C)

\* s.substring from position i (1-based) to the end.
From(s, i) == SubSeq(s, i, Len(s))

\* s.startsWith(p) at position i (1-based).
StartsAt(s, i, p) ==
    /\ i + Len(p) - 1 <= Len(s)
    /\ SubSeq(s, i, i + Len(p) - 1) = p

\* String.prototype.trim
Trim(s) ==
    LET lead  == RunLen(s, 1, Ws)
        trail == RunLenBack(s, Len(s), Ws)
    IN  IF lead = Len(s) THEN <<>> ELSE SubSeq(s, lead + 1, Len(s) - trail)

\* String.prototype.split('\n'): the empty string splits into one empty line.
RECURSIVE Split(_)
Split(s) ==
    LET nls == {k \in 1..Len(s) : s[k] = NL}
    IN  IF nls = {} THEN <<s>>
        ELSE LET k == CHOOSE x \in nls : \A y \in nls : x <= y
             IN  <<SubSeq(s, 1, k - 1)>> \o Split(From(s, k + 1))

\* Array.prototype.join('\n'): the empty array joins to the empty string.
RECURSIVE Join(_)
Join(ls) ==
    IF ls = <<>> THEN <<>>
    ELSE IF Len(ls) = 1 THEN ls[1]
    ELSE ls[1] \o <<NL>> \o Join(Tail(ls))

\* .filter(l => l.trim()): the lines whose trim is not the empty string.
IsNonBlank(l) == Trim(l) # <<>>
NonBlank(ls) == SelectSeq(ls, IsNonBlank)

\* '#'.repeat(n)
Repeat(n) == [i \in 1..n |-> "#"]

\* `${n}` for a natural number n.
RECURSIVE ToStr(_)
ToStr(n) ==
    IF n < 10 THEN <<DigitChar[n + 1]>>
    ELSE ToStr(n \div 10) \o <<DigitChar[(n % 10) + 1]>>

\* ---------------------------------------------------------------- patterns
NoMatch == [ok |-> FALSE]

\* The tail (#{1,6})\s+(.+)$ of the heading patterns, matched at position i.
\* The marker run must be the whole run of "#" (a shorter prefix leaves a "#"
\* where \s is required), so it matches only when that run has 1..6
\* characters.  \s+ is greedy and gives back one character when nothing is
\* left for (.+).
MarkerTail(line, i) ==
    LET k    == RunLen(line, i, Hash)
        v    == RunLen(line, i + k, Ws)
        rest == i + k + v
    IN  IF k < 1 \/ k > MaxLevel \/ v < 1 THEN NoMatch
        ELSE IF rest <= Len(line)
             THEN [ok |-> TRUE, level |-> k, text |-> From(line, rest)]
        ELSE IF v >= 2
             THEN [ok |-> TRUE, level |-> k, text |-> From(line, rest - 1)]
        ELSE NoMatch

\* line.match(/^(#{1,6})\s+(.+)$/)
HeadingMatch(line) == MarkerTail(line, 1)

\* The length of a leading H\d+ of the line, 0 when there is none.
HIdLen(line) ==
    IF Len(line) >= 2 /\ line[1] = "H" /\ RunLen(line, 2, Digit) >= 1
    THEN 1 + RunLen(line, 2, Digit)
    ELSE 0

\* The sentinel id of an added entry.
NewId == <<"N", "E", "W">>

\* line.match(/^(H\d+)\|/)
IdMatch(line) ==
    LET p == HIdLen(line)
    IN  IF p > 0 /\ StartsAt(line, p + 1, <<"|">>)
        THEN [ok |-> TRUE, id |-> SubSeq(line, 1, p)]
        ELSE NoMatch

\* line.match(/^H\d+\|(.+)$/): group 1 needs at least one character.
StripMatch(line) ==
    LET m == IdMatch(line)
    IN  IF m.ok /\ Len(m.id) + 1 < Len(line)
        THEN [ok |-> TRUE, rest |-> From(line, Len(m.id) + 2)]
        ELSE NoMatch

\* line.match(/^(H\d+|NEW)\|\s*(#{1,6})\s+(.+)$/)
EditMatch(line) ==
    LET p == IF HIdLen(line) > 0 THEN HIdLen(line)
             ELSE IF StartsAt(line, 1, NewId) THEN 3 ELSE 0
    IN  IF p = 0 \/ ~StartsAt(line, p + 1, <<"|">>) THEN NoMatch
        ELSE LET s == RunLen(line, p + 2, Ws)
                 t == MarkerTail(line, p + 2 + s)
             IN  IF t.ok
                 THEN [ok |-> TRUE, id |-> SubSeq(line, 1, p),
                       level |-> t.level, text |-> t.text]
                 ELSE NoMatch

\* ---------------------------------------------------------------- extractor
\* `H${headingCounter}`
HId(k) == <<"H">> \o ToStr(k)

\* parseHeadings' loop over the lines from 0-based index `index` on, with
\* headingCounter headings found so far.
RECURSIVE ParseFrom(_, _, _)
ParseFrom(lines, index, headingCounter) ==
    IF index >= Len(lines) THEN <<>>
    ELSE LET line == lines[index + 1]
             m    == HeadingMatch(line)
         IN  IF m.ok
             THEN <<[level |-> m.level, text |-> m.text, line |-> index,
                     originalLine |-> line, id |-> HId(headingCounter + 1)]>>
                  \o ParseFrom(lines, index + 1, headingCounter + 1)
             ELSE ParseFrom(lines, index + 1, headingCounter)

\* parseHeadings: this.headings for the document text `content`.
ParseHeadings(content) == ParseFrom(Split(content), 0, 0)

\* `${h.id}|${'#'.repeat(h.level)} ${h.text}`
OutlineLine(h) == h.id \o <<"|">> \o Repeat(h.level) \o <<" ">> \o h.text

\* onOpen's outlineText.
OutlineText(hs) == Join([i \in 1..Len(hs) |-> OutlineLine(hs[i])])

\* ------------------------------------------------------------------ adapter
\* The map callback of currentOutline: the line without its H<k>| prefix.
StripId(line) == IF StripMatch(line).ok THEN StripMatch(line).rest ELSE line

\* currentOutline, the outline of the request, for the textarea value `text`.
CurrentOutline(text) ==
    LET ls == Split(text)
    IN  Join([i \in 1..Len(ls) |-> StripId(ls[i])])

\* s.replace(/<pat>\n?/g, ''): every occurrence of pat, with the newline that
\* follows it if any, removed, scanning from the left.
RECURSIVE RemoveAll(_, _)
RemoveAll(s, pat) ==
    IF s = <<>> THEN <<>>
    ELSE IF StartsAt(s, 1, pat)
         THEN LET n == Len(pat) + (IF StartsAt(s, Len(pat) + 1, <<NL>>) THEN 1 ELSE 0)
              IN  RemoveAll(From(s, n + 1), pat)
    ELSE <<s[1]>> \o RemoveAll(Tail(s), pat)

\* The backquote character (the parser accepts none inside a string, so the
\* alphabet names it).
Backquote == "BQ"
Fence == <<Backquote, Backquote, Backquote>>
FenceMarkdown == Fence \o <<"m", "a", "r", "k", "d", "o", "w", "n">>

\* enhancedOutline after the trim, the two replaces and the second trim.
CleanReply(content) ==
    Trim(RemoveAll(RemoveAll(Trim(content), FenceMarkdown), Fence))

\* matchHeadingsWithIds' loop: the result for the enhanced lines from
\* position i on, with the current originalIndex.
RECURSIVE MatchFrom(_, _, _, _)
MatchFrom(originalLines, enhancedLines, i, originalIndex) ==
    IF i > Len(enhancedLines) THEN <<>>
    ELSE LET enhancedLine == enhancedLines[i]
         IN  IF originalIndex < Len(originalLines)
             THEN LET idMatch == IdMatch(originalLines[originalIndex + 1])
                  IN  IF idMatch.ok
                      THEN <<idMatch.id \o <<"|">> \o enhancedLine>>
                           \o MatchFrom(originalLines, enhancedLines, i + 1,
                                        originalIndex + 1)
                      ELSE <<enhancedLine>>
                           \o MatchFrom(originalLines, enhancedLines, i + 1,
                                        originalIndex)
             ELSE <<NewId \o <<"|">> \o enhancedLine>>
                  \o MatchFrom(originalLines, enhancedLines, i + 1, originalIndex)

MatchHeadingsWithIds(originalLines, enhancedLines) ==
    MatchFrom(originalLines, enhancedLines, 1, 0)

\* The textarea value written by a successful call: `content` is the reply's
\* choices[0].message.content, `current` the textarea value read after it.
EnhancedText(content, current) ==
    Join(MatchHeadingsWithIds(NonBlank(Split(current)),
                              NonBlank(Split(CleanReply(content)))))

\* --------------------------------------------------------------- reconciler
\* editedHeadings: the entries of the lines that match, in order.
RECURSIVE ParseEdited(_)
ParseEdited(editedLines) ==
    IF editedLines = <<>> THEN <<>>
    ELSE LET m == EditMatch(Head(editedLines))
         IN  (IF m.ok
              THEN <<[id |-> m.id, level |-> m.level, text |-> Trim(m.text)]>>
              ELSE <<>>) \o ParseEdited(Tail(editedLines))

IsNewEntry(e) == e.id = NewId

\* newHeadings: the NEW entries in order.
NewHeadings(editedHeadings) == SelectSeq(editedHeadings, IsNewEntry)

\* Map.prototype.set
MapSet(m, k, v) == [y \in (DOMAIN m) \cup {k} |-> IF y = k THEN v ELSE m[y]]

\* editMap: the entries that are not NEW, set in order.
RECURSIVE EditMapFrom(_, _)
EditMapFrom(editedHeadings, m) ==
    IF editedHeadings = <<>> THEN m
    ELSE LET edited == Head(editedHeadings)
         IN  EditMapFrom(Tail(editedHeadings),
                         IF edited.id = NewId THEN m
                         ELSE MapSet(m, edited.id, edited))

EditMap(editedHeadings) == EditMapFrom(editedHeadings, <<>>)

OriginalIds(hs) == {hs[i].id : i \in 1..Len(hs)}
EditedIds(editedHeadings) == {editedHeadings[i].id : i \in 1..Len(editedHeadings)}
DeletedIds(hs, editedHeadings) == OriginalIds(hs) \ EditedIds(editedHeadings)

\* '#'.repeat(level) + ' ' + text
NewLine(e) == Repeat(e.level) \o <<" ">> \o e.text

\* The "update or mark for deletion" loop over the headings from position i
\* on; st is [lines, linesToRemove, changesMade].
RECURSIVE UpdateOrMark(_, _, _, _, _)
UpdateOrMark(hs, i, deletedIds, editMap, st) ==
    IF i > Len(hs) THEN st
    ELSE LET heading == hs[i]
         IN  IF heading.id \in deletedIds
             THEN UpdateOrMark(hs, i + 1, deletedIds, editMap,
                      [st EXCEPT !.linesToRemove = Append(@, heading.line),
                                 !.changesMade = TRUE])
             ELSE IF heading.id \in DOMAIN editMap
             THEN LET newLine == NewLine(editMap[heading.id])
                  IN  IF st.lines[heading.line + 1] # newLine
                      THEN UpdateOrMark(hs, i + 1, deletedIds, editMap,
                               [st EXCEPT !.lines[heading.line + 1] = newLine,
                                          !.changesMade = TRUE])
                      ELSE UpdateOrMark(hs, i + 1, deletedIds, editMap, st)
             ELSE UpdateOrMark(hs, i + 1, deletedIds, editMap, st)

\* Mutant of SortDesc: the indices are left in ascending order.
SortKeep(a) == a

\* linesToRemove.sort((a, b) => b - a)
RECURSIVE SortDesc(_)
SortDesc(a) ==
    IF a = <<>> THEN <<>>
    ELSE LET m == SetMax({a[i] : i \in 1..Len(a)})
             p == CHOOSE i \in 1..Len(a) : a[i] = m
         IN  <<m>> \o SortDesc(SubSeq(a, 1, p - 1) \o SubSeq(a, p + 1, Len(a)))

\* Mutant of RemoveAt: the index is taken as 1-based.
RemoveAtOneBased(lines, lineIndex) ==
    SubSeq(lines, 1, lineIndex - 1) \o SubSeq(lines, lineIndex + 1, Len(lines))

\* lines.splice(lineIndex, 1)
RemoveAt(lines, lineIndex) ==
    IF lineIndex >= Len(lines) THEN lines
    ELSE SubSeq(lines, 1, lineIndex) \o SubSeq(lines, lineIndex + 2, Len(lines))

\* The removal loop over the sorted indices.
RECURSIVE RemoveLines(_, _)
RemoveLines(lines, linesToRemove) ==
    IF linesToRemove = <<>> THEN lines
    ELSE RemoveLines(RemoveAt(lines, Head(linesToRemove)), Tail(linesToRemove))

\* The lines pushed for the new headings.
NewLines(newHeadings) == [i \in 1..Len(newHeadings) |-> NewLine(newHeadings[i])]

\* applyChanges up to its if (changesMade): `text` is the textarea value,
\* `content` the document text, hs this.headings.
Reconcile(text, content, hs) ==
    LET editedLines    == NonBlank(Split(text))
        lines          == Split(content)
        editedHeadings == ParseEdited(editedLines)
        editMap        == EditMap(editedHeadings)
        newHeadings    == NewHeadings(editedHeadings)
        deletedIds     == DeletedIds(hs, editedHeadings)
        st             == UpdateOrMark(hs, 1, deletedIds, editMap,
                              [lines |-> lines, linesToRemove |-> <<>>,
                               changesMade |-> FALSE])
        removed        == RemoveLines(st.lines, SortDesc(st.linesToRemove))
    IN  [lines       |-> removed \o NewLines(newHeadings),
         changesMade |-> st.changesMade \/ Len(newHeadings) > 0,
         modified    |-> Cardinality(DOMAIN editMap),
         removed     |-> Cardinality(deletedIds),
         added       |-> Len(newHeadings)]

\* ------------------------------------------------------------------- inputs
SeqsUpTo(S, n) == UNION {[1..k -> S] : k \in 0..n}

\* Document lines: two headings, a heading with two spaces after its marker,
\* and a body line.
LineA == <<"#", " ", "a">>
LineB == <<"#", "#", " ", "b">>
LineWide == <<"#", " ", " ", "a">>
LineBody == <<"x">>
DocLineSet == {LineA, LineB, LineWide, LineBody}
Docs == {Join(ls) : ls \in SeqsUpTo(DocLineSet, MaxDocLines) \ {<<>>}}

\* Lines a user can type into the outline: kept, modified, added (NEW, one of
\* them with extra whitespace), unknown-id and malformed lines.
EditLineSet ==
    { <<"H", "1", "|", "#", " ", "a">>,
      <<"H", "2", "|", "#", "#", " ", "b">>,
      <<"H", "1", "|", "#", "#", " ", "b">>,
      <<"N", "E", "W", "|", "#", " ", "a">>,
      <<"N", "E", "W", "|", " ", "#", "#", "\t", "a", " ", "b", " ">>,
      <<"H", "9", "|", "#", " ", "a">>,
      <<"x">> }
EditTexts == {Join(ls) : ls \in SeqsUpTo(EditLineSet, MaxEditLines)}

\* The session specification: one document, three user edits, four replies.
SessionDocs == {Join(<<LineA, LineBody, LineB>>)}
SessionTexts ==
    { <<"H", "2", "|", "#", "#", " ", "b">>,
      Join(<< <<"H", "1", "|", "#", " ", "a">>, <<"#", "#", " ", "b">> >>),
      Join(<< <<"H", "2", "|", "#", "#", " ", "b">>,
              <<"H", "1", "|", "#", " ", "a">> >>) }
Replies ==
    { Join(<< <<"#", " ", "c">>, <<"#", "#", " ", "d">> >>),
      <<"#", "#", " ", "d">>,
      Join(<< <<"#", " ", "c">>, <<>>, <<"#", "#", " ", "d">>, <<"#", " ", "e">> >>),
      Join(<< FenceMarkdown, <<"#", " ", "c">>, Fence >>) }

\* The inputs of matchHeadingsWithIds.
MatchOriginalSet ==
    { <<"H", "1", "|", "#", " ", "a">>,
      <<"H", "2", "|", "#", "#", " ", "b">>,
      <<"#", " ", "a">> }
MatchEnhancedSet == { <<"#", " ", "c">>, <<"#", "#", " ", "d">> }

\* -------------------------------------------------------------------- state
VARIABLES
    phase,        \* "new": constructed; "open": after onOpen; "closed": after close()
    doc,          \* this.view.editor's text
    hasKey,       \* this.settings.apiKey is not empty
    headings,     \* this.headings
    textArea,     \* this.textArea.value
    isProcessing, \* this.isProcessing
    aiDisabled,   \* this.aiButton.disabled
    aiLabel,      \* this.aiButton's text
    calls,        \* the requestUrl calls awaited: [payload: the outline sent,
                  \*   outline: the textarea value it was built from]
    notice,       \* the last Notice shown
    openedDoc,    \* history: the document text parseHeadings read
    reply,        \* history: the content of the last successful reply
    last,         \* history: the handler that ran last
    mOrig, mEnh, mResult  \* arguments and result of matchHeadingsWithIds

vars == <<phase, doc, hasKey, headings, textArea, isProcessing, aiDisabled,
          aiLabel, calls, notice, openedDoc, reply, last, mOrig, mEnh, mResult>>

\* Everything but the history variable `last`.
progVars == <<phase, doc, hasKey, headings, textArea, isProcessing, aiDisabled,
              aiLabel, calls, notice, openedDoc, reply, mOrig, mEnh, mResult>>

matchVars == <<mOrig, mEnh, mResult>>

Notice(kind, modified, removed, added) ==
    [kind |-> kind, modified |-> modified, removed |-> removed, added |-> added]

\* The modal after its constructor, for a document of the set D.
Constructed(D) ==
    /\ phase = "new"
    /\ doc \in D
    /\ hasKey \in BOOLEAN
    /\ headings = <<>>
    /\ textArea = <<>>
    /\ isProcessing = FALSE
    /\ aiDisabled = FALSE
    /\ aiLabel = "enhance"
    /\ calls = <<>>
    /\ notice = Notice("none", 0, 0, 0)
    /\ openedDoc = <<>>
    /\ reply = <<>>
    /\ last = "new"

Init ==
    /\ Constructed(SessionDocs)
    /\ mOrig = <<>> /\ mEnh = <<>> /\ mResult = <<>>

\* onOpen: parse the document, fill the textarea, create the buttons.
OnOpen ==
    /\ phase = "new"
    /\ phase' = "open"
    /\ headings' = ParseHeadings(doc)
    /\ openedDoc' = doc
    /\ textArea' = OutlineText(headings')
    /\ aiDisabled' = ~hasKey
    /\ last' = "open"
    /\ UNCHANGED <<doc, hasKey, isProcessing, aiLabel, calls, notice, reply, matchVars>>

\* The user replaces the textarea's content by the text t.
SetText(t) ==
    /\ phase = "open"
    /\ t # textArea
    /\ textArea' = t
    /\ last' = "edit"
    /\ UNCHANGED <<phase, doc, hasKey, headings, isProcessing, aiDisabled, aiLabel,
                   calls, notice, openedDoc, reply, matchVars>>

UserEdit == \E t \in SessionTexts : SetText(t)

\* Mutant of ClickEnhance: no isProcessing check.
ClickEnhanceUnguarded ==
    /\ phase = "open"
    /\ last' = "click"
    /\ IF ~hasKey
       THEN /\ notice' = Notice("nokey", 0, 0, 0)
            /\ UNCHANGED <<isProcessing, aiDisabled, aiLabel, calls>>
       ELSE /\ Len(calls) < MaxOutstanding
            /\ isProcessing' = TRUE
            /\ aiDisabled' = TRUE
            /\ aiLabel' = "processing"
            /\ calls' = Append(calls, [payload |-> CurrentOutline(textArea),
                                       outline |-> textArea])
            /\ UNCHANGED notice
    /\ UNCHANGED <<phase, doc, hasKey, headings, textArea, openedDoc, reply,
                   mOrig, mEnh, mResult>>

\* enhanceWithAI up to its await: the two early returns, then the request.
\* The handler is invoked whenever the modal is open; its own guards, not the
\* button's disabled attribute, decide what it does.
ClickEnhance ==
    /\ phase = "open"
    /\ last' = "click"
    /\ IF ~hasKey
       THEN /\ notice' = Notice("nokey", 0, 0, 0)
            /\ UNCHANGED <<isProcessing, aiDisabled, aiLabel, calls>>
       ELSE IF isProcessing
       THEN UNCHANGED <<notice, isProcessing, aiDisabled, aiLabel, calls>>
       ELSE /\ Len(calls) < MaxOutstanding
            /\ isProcessing' = TRUE
            /\ aiDisabled' = TRUE
            /\ aiLabel' = "processing"
            /\ calls' = Append(calls, [payload |-> CurrentOutline(textArea),
                                       outline |-> textArea])
            /\ UNCHANGED notice
    /\ UNCHANGED <<phase, doc, hasKey, headings, textArea, openedDoc, reply, matchVars>>

DropCall(i) == SubSeq(calls, 1, i - 1) \o SubSeq(calls, i + 1, Len(calls))

\* The finally block.
Finally ==
    /\ isProcessing' = FALSE
    /\ aiDisabled' = FALSE
    /\ aiLabel' = "enhance"

\* The continuation of enhanceWithAI when the call succeeds with the message
\* content `content`.
ResponseOk ==
    \E i \in DOMAIN calls, content \in Replies :
        /\ textArea' = EnhancedText(content, textArea)
        /\ notice' = Notice("enhanced", 0, 0, 0)
        /\ Finally
        /\ calls' = DropCall(i)
        /\ reply' = content
        /\ last' = "ok"
        /\ UNCHANGED <<phase, doc, hasKey, headings, openedDoc, matchVars>>

\* Mutant of ResponseFail: the cleanup is skipped when the call throws.
ResponseFailNoCleanup ==
    \E i \in DOMAIN calls :
        /\ notice' = Notice("error", 0, 0, 0)
        /\ calls' = DropCall(i)
        /\ last' = "fail"
        /\ UNCHANGED <<phase, doc, hasKey, headings, textArea, isProcessing, aiDisabled,
                       aiLabel, openedDoc, reply, mOrig, mEnh, mResult>>

\* The continuation when requestUrl throws (transport failure, non-success
\* status) or the reply has no choices[0].message.content: catch, finally.
ResponseFail ==
    \E i \in DOMAIN calls :
        /\ notice' = Notice("error", 0, 0, 0)
        /\ Finally
        /\ calls' = DropCall(i)
        /\ last' = "fail"
        /\ UNCHANGED <<phase, doc, hasKey, headings, textArea, openedDoc, reply, matchVars>>

\* applyChanges (the Done button).
Done ==
    /\ phase = "open"
    /\ LET r == Reconcile(textArea, doc, headings)
       IN  IF r.changesMade
           THEN /\ doc' = Join(r.lines)
                /\ notice' = Notice("updated", r.modified, r.removed, r.added)
           ELSE /\ notice' = Notice("nochange", 0, 0, 0)
                /\ UNCHANGED doc
    /\ phase' = "closed"
    /\ last' = "done"
    /\ UNCHANGED <<hasKey, headings, textArea, isProcessing, aiDisabled, aiLabel,
                   calls, openedDoc, reply, matchVars>>

\* The Cancel button: close().
Cancel ==
    /\ phase = "open"
    /\ phase' = "closed"
    /\ last' = "cancel"
    /\ UNCHANGED <<doc, hasKey, headings, textArea, isProcessing, aiDisabled, aiLabel,
                   calls, notice, openedDoc, reply, matchVars>>

Next == OnOpen \/ UserEdit \/ ClickEnhance \/ ResponseOk \/ ResponseFail \/ Done \/ Cancel

\* One editor session with the external rewrite call.
Spec == Init /\ [][Next]_vars

\* Extraction, any user edit and reconciliation, over all documents of Docs
\* (a cancelled session reconciles nothing).
InitReconcile ==
    /\ Constructed(Docs)
    /\ hasKey = FALSE
    /\ mOrig = <<>> /\ mEnh = <<>> /\ mResult = <<>>

\* The user's whole editing, from the outline shown at open to the text t
\* (applyChanges reads only the final text).
UserEditAny == last = "open" /\ \E t \in EditTexts : SetText(t)

NextReconcile == OnOpen \/ UserEditAny \/ Done

SpecReconcile == InitReconcile /\ [][NextReconcile]_vars

\* matchHeadingsWithIds applied to every pair of bounded line sequences.
InitMatch ==
    /\ Constructed({<<>>})
    /\ hasKey = FALSE
    /\ mOrig \in SeqsUpTo(MatchOriginalSet, MaxMatchLines)
    /\ mEnh \in SeqsUpTo(MatchEnhancedSet, MaxMatchLines)
    /\ mResult = <<>>

ApplyMatch ==
    /\ last = "new"
    /\ mResult' = MatchHeadingsWithIds(mOrig, mEnh)
    /\ last' = "match"
    /\ UNCHANGED <<phase, doc, hasKey, headings, textArea, isProcessing, aiDisabled,
                   aiLabel, calls, notice, openedDoc, reply, mOrig, mEnh>>

NextMatch == ApplyMatch

SpecMatch == InitMatch /\ [][NextMatch]_vars

\* =================================================================== claims
\* After Done nothing else runs in the session's own handlers, so in a state
\* with last = "done" the textarea still holds the text applyChanges read and
\* openedDoc the document it read.
DoneEntries == ParseEdited(NonBlank(Split(textArea)))
DoneIds == {DoneEntries[i].id : i \in 1..Len(DoneEntries)}
OpenedLines == Split(openedDoc)

\* The last parsed entry with the id.
LastEntry(entries, id) ==
    entries[SetMax({i \in 1..Len(entries) : entries[i].id = id})]

\* The reference patch of the original lines under the parsed entries.
RefPatch(lines0, hs, entries) ==
    LET ids == {entries[i].id : i \in 1..Len(entries)}
        HeadingsAt(j) == {i \in 1..Len(hs) : hs[i].line = j}
        Kept(j) == \A i \in HeadingsAt(j) : hs[i].id \in ids
        LineOf(j) ==
            IF HeadingsAt(j) = {} THEN lines0[j + 1]
            ELSE LET e == LastEntry(entries, hs[CHOOSE i \in HeadingsAt(j) : TRUE].id)
                 IN  Repeat(e.level) \o <<" ">> \o e.text
        kept == SelectSeq([j \in 1..Len(lines0) |-> j - 1], Kept)
        news == SelectSeq(entries, IsNewEntry)
    IN  [k \in 1..Len(kept) |-> LineOf(kept[k])]
        \o [k \in 1..Len(news) |-> Repeat(news[k].level) \o <<" ">> \o news[k].text]

\* C1 (round-trip no-op): when Done runs on the outline exactly as onOpen
\* produced it, the notice is "no changes" and the document is what it was.
C1_RoundTripNoOp ==
    (last = "done" /\ textArea = OutlineText(headings))
        => (notice.kind = "nochange" /\ doc = openedDoc)

\* The original headings whose line applyChanges replaced by a different one.
OverwrittenHeadings ==
    {i \in 1..Len(headings) :
        /\ headings[i].id \in DoneIds
        /\ LET e == LastEntry(DoneEntries, headings[i].id)
           IN  Repeat(e.level) \o <<" ">> \o e.text # OpenedLines[headings[i].line + 1]}
RemovedHeadings == {i \in 1..Len(headings) : headings[i].id \notin DoneIds}

\* C2 (reported counts): when a change is reported, modified is the number of
\* headings whose line was overwritten with a different line, removed the
\* number of headings whose line was removed, added the number of NEW entries.
C2_ReportedCounts ==
    (last = "done" /\ notice.kind = "updated")
        => /\ notice.modified = Cardinality(OverwrittenHeadings)
           /\ notice.removed = Cardinality(RemovedHeadings)
           /\ notice.added = Len(SelectSeq(DoneEntries, IsNewEntry))

\* C3 (reference patch): after Done the document is the original lines with
\* the lines of absent ids removed, the lines of present ids rebuilt from the
\* last entry with that id, and the NEW entries appended in outline order.
C3_ReferencePatch ==
    last = "done" => doc = Join(RefPatch(OpenedLines, headings, DoneEntries))

\* A Done that removed a heading, rewrote another, appended a NEW entry and
\* left a body line in place.
C3_Witness ==
    /\ last = "done"
    /\ notice.kind = "updated"
    /\ RemovedHeadings # {}
    /\ OverwrittenHeadings # {}
    /\ SelectSeq(DoneEntries, IsNewEntry) # <<>>
    /\ LineBody \in {OpenedLines[j] : j \in 1..Len(OpenedLines)}

\* C4 (non-heading content preserved): after Done the document is the
\* original lines with some heading lines removed, the non-heading lines
\* unchanged at their place among the kept lines, and any further line after
\* the last kept one.
C4_NonHeadingPreserved ==
    last = "done" =>
        LET headingLines == {headings[i].line : i \in 1..Len(headings)}
            after == Split(doc)
        IN  \E removed \in SUBSET headingLines :
                LET IsKept(j) == j \notin removed
                    kept == SelectSeq([j \in 1..Len(OpenedLines) |-> j - 1], IsKept)
                IN  /\ Len(after) >= Len(kept)
                    /\ \A k \in 1..Len(kept) :
                           kept[k] \notin headingLines
                               => after[k] = OpenedLines[kept[k] + 1]

\* A Done that removed a heading standing before a body line, and appended.
C4_Witness ==
    /\ last = "done"
    /\ notice.kind = "updated"
    /\ notice.removed >= 1
    /\ notice.added >= 1
    /\ Len(OpenedLines) >= 2
    /\ OpenedLines[Len(OpenedLines)] = LineBody
    /\ OpenedLines[1] # LineBody
    /\ headings[1].id \notin DoneIds

\* The i-th line positional re-attachment gives, decided by the i-th original
\* line alone.
PositionalLine(i) ==
    IF i <= Len(mOrig)
    THEN IF IdMatch(mOrig[i]).ok
         THEN IdMatch(mOrig[i]).id \o <<"|">> \o mEnh[i]
         ELSE mEnh[i]
    ELSE NewId \o <<"|">> \o mEnh[i]

\* C5 (positional re-attachment): the i-th returned line is the i-th enhanced
\* line with the id of the i-th original line, bare when that line has no id,
\* and tagged NEW when there is no i-th original line.
C5_PositionalReattachment ==
    last = "match" =>
        /\ Len(mResult) = Len(mEnh)
        /\ \A i \in 1..Len(mEnh) : mResult[i] = PositionalLine(i)

\* A line that starts with an internal identifier.
HasIdPrefix(line) == IdMatch(line).ok \/ StartsAt(line, 1, NewId \o <<"|">>)

\* C6 (identifiers never sent): no line of the outline of a request starts
\* with H<k>| or NEW|.
C6_NoIdsSent ==
    \A c \in 1..Len(calls) :
        \A l \in 1..Len(Split(calls[c].payload)) :
            ~HasIdPrefix(Split(calls[c].payload)[l])

\* C7 (single-flight): at most one call is outstanding, and a click while a
\* call is outstanding sends nothing and changes no state.
C7_SingleFlight ==
    [][ /\ Len(calls') <= 1
        /\ (last' = "click" /\ Len(calls) > 0) => UNCHANGED progVars ]_vars

\* A click made while a call was outstanding: the textarea was edited after
\* the request was sent, and the click came after the edit.
C7_Witness ==
    /\ last = "click"
    /\ Len(calls) = 1
    /\ isProcessing
    /\ calls[1].outline # textArea

\* C8 (no reconciliation during a call): Done never runs while a call is
\* outstanding.
C8_NoReconcileDuringCall == last = "done" => calls = <<>>

\* C9 (failure leaves state intact): a failed call writes neither the
\* textarea nor the document and restores the ready state.
C9_FailureLeavesState ==
    [][ (last' = "fail" /\ calls' # calls) =>
            /\ textArea' = textArea
            /\ doc' = doc
            /\ isProcessing' = FALSE
            /\ aiDisabled' = FALSE
            /\ aiLabel' = "enhance" ]_vars

\* A call failed after the user had edited the outline it was built from; the
\* edited text is still there and the session is ready.
C9_Witness ==
    /\ last = "fail"
    /\ phase = "open"
    /\ textArea \in SessionTexts
    /\ notice.kind = "error"
    /\ ~isProcessing

\* C10 (ids re-attached from the text sent): a successful call writes the
\* reply's lines with the ids of the non-blank lines of the outline its
\* request was built from.
C10_ReattachFromSent ==
    [][ (last' = "ok" /\ calls # <<>> /\ calls' # calls) =>
            textArea' = EnhancedText(reply', calls[1].outline) ]_vars
====
